---- MODULE Spec2Model ----
(***************************************************************************)
(* Verification model of dispersy's bootstrap resolver (bootstrap.py) and  *)
(* of the candidate introduction selection exercised by                    *)
(* tests/test_candidates.py.                                               *)
(*                                                                         *)
(* Library semantics the resolver relies on (Twisted):                     *)
(*  - reactor.resolve(host) returns a Deferred that fires with an IP       *)
(*    string or fails with a DNS error; it never fires with a false value. *)
(*  - gatherResults(ds) (consumeErrors=False, fireOnOneErrback=True) fires *)
(*    with the list of results once every Deferred has succeeded, and      *)
(*    fails with FirstError as soon as the first Deferred fails.           *)
(*  - inlineCallbacks throws the failure into the generator at the yield;  *)
(*    an uncaught exception fails the Deferred that resolve() returned.    *)
(*  - LoopingCall does not call again while the Deferred returned by the   *)
(*    previous call is pending, and stops for good (running = False) when  *)
(*    that Deferred fails or the call raises.                              *)
(*                                                                         *)
(* Threads: resolve(), resolve_until_success(), the timer's calls and the  *)
(* callbacks of the lookups run on the reactor thread, one at a time.      *)
(* reset() and the assignment of Bootstrap.enabled are made by another     *)
(* thread, which can run between any two accesses of the reactor thread to *)
(* the resolver's state.                                                   *)
(***************************************************************************)
EXTENDS Integers, Sequences, FiniteSets, TLC

\* ------------------------------------------------------------------ bounds
\* number of (host, port) pairs handed to Bootstrap.__init__
MaxAddresses == 2
\* number of foreground resolve() calls that may be pending at once
MaxCalls == 1
\* number of LoopingCall objects that may be alive at once
MaxTimers == 2

\* ------------------------------------------------------- bootstrap resolver
VARIABLES
    enabled,        \* Bootstrap.enabled (class attribute)
    _candidates,    \* self._candidates: (host, port) -> candidate or NoCandidate
    _resolution_lc, \* self._resolution_lc: a timer id or NoTimer
    timers,         \* the LoopingCall objects: id -> [state, round]
    calls,          \* pending resolve() calls made directly: slot -> round
    reactor,        \* where the reactor thread is in the resolver's code
    last            \* the operation that the latest step performed

\* A selection of _DEFAULT_ADDRESSES; the first two share port 6421.
_DEFAULT_ADDRESSES ==
    << <<"dispersy1.tribler.org", 6421>>,
       <<"dispersy1.st.tudelft.nl", 6421>>,
       <<"dispersy2.tribler.org", 6422>>,
       <<"dispersy2.st.tudelft.nl", 6422>> >>

\* What the DNS answers for a host: "both DISPERSY1.TRIBLER.ORG and
\* DISPERSY1.ST.TUDELFT.NL point to 130.161.211.245".
DNS(host) ==
    CASE host = "dispersy1.tribler.org" -> "130.161.211.245"
      [] host = "dispersy1.st.tudelft.nl" -> "130.161.211.245"
      [] host = "dispersy2.tribler.org" -> "130.161.211.246"
      [] OTHER -> "130.161.211.247"

NoCandidate == << >>
NoTimer == 0
NoRound == [addresses |-> {}, ips |-> << >>]

TimerIds == 1..MaxTimers
CallIds == 1..MaxCalls

\* BootstrapCandidate((str(ip), port), False): identified by its sock address
BootstrapCandidate(ip, port) == <<ip, port>>

Keys == DOMAIN _candidates

\* Bootstrap.are_resolved: all(self._candidates.itervalues())
are_resolved == \A a \in Keys : _candidates[a] # NoCandidate

\* Bootstrap.candidates: the resolved candidates (one list element per key)
candidates == {a \in Keys : _candidates[a] # NoCandidate}

\* Bootstrap.progress: (resolved_count, total_count)
progress == <<Cardinality(candidates), Cardinality(Keys)>>

\* resolve(): the addresses it looks up
Unresolved == {a \in Keys : _candidates[a] = NoCandidate}

\* The record of the step just taken: the operation, the timer that made the
\* call (NoTimer for a foreground call), how it ended, the addresses whose
\* lookups had succeeded in the round that ended, the number of resolved
\* addresses before a reset, and Bootstrap.enabled as the call read it.
Op(op, origin, outcome, ok, before, en) ==
    [op |-> op, origin |-> origin, outcome |-> outcome, ok |-> ok,
     before |-> before, enabled |-> en]
NoOp == Op("init", NoTimer, "none", {}, 0, TRUE)

\* A resolve() round waiting in gatherResults: the addresses it looks up and
\* the lookups that have fired with an IP so far.
NewRound == [addresses |-> Unresolved, ips |-> << >>]
Pending(r) == r.addresses \ DOMAIN r.ips

\* The reactor thread is in no code of the resolver ("idle"), or between two
\* accesses of a call made for origin: before resolution_lc reads
\* are_resolved ("lc"), before it stops the timer ("stop"), before resolve()
\* reads Bootstrap.enabled ("resolve"), before it takes the lock to read
\* are_resolved ("are_resolved"), before its scan of line 145 ("scan"),
\* or in its loop of lines 147-154 with the addresses of todo still to
\* write ("install").
At(at, origin, todo) == [at |-> at, origin |-> origin, todo |-> todo]
ReactorIdle == At("idle", <<"none", 0>>, {})

\* ------------------------------------------------------ candidate registry
\* The candidates of tests/test_candidates.py: candidate i has the address
\* ("127.0.0.1", i); all are created with is_bootstrap = False.
NumCandidates == 5
\* the largest value time() returns
MaxTime == 2

VARIABLES
    policy,      \* community_create_method: "plain" (DebugCommunity) or "tracker"
    timestamps,  \* community -> candidate -> [last_stumble, last_walk, last_walk_response]
    events,      \* community -> number of events delivered to it
    clock,       \* the latest value of time()
    pc,          \* the test's position
    walker,      \* the candidate that walked in the tracker test
    responded,   \* whether its walk was answered
    got          \* the introductions collected by each loop of the test

\* ------------------------------------------------- state of the other parts
VARIABLES
    registry,    \* the registered candidates: id -> its attributes
    introduced,  \* what the generators of introductions made since the latest event yielded
    merged,      \* the deduplication pass just made: its reference, the registry and the timestamps before
    file,        \* the seed file: whether it can be opened, and its lines
    loaded,      \* what load_addresses_from_file returned for it
    ec,          \* the key: len(ec), its size in bits
    curve_order, \* the key: the order n of the group of its curve
    optimized,   \* the interpreter runs with -O: assert statements are dropped
    mpi,         \* the pair (mpi_r, mpi_s) that ec.sign_dsa returned
    signature,   \* what create_signature returned
    checked,     \* the signature given to is_valid_signature, and the outcome
    _lock,       \* the thread that holds self._lock, or "free"
    threads,     \* where each thread is in the resolver's code
    access       \* the access to self._candidates just made

Candidates == 1..NumCandidates

\* c.create_candidate(address, False, address, address, u"unknown") of the
\* test, for address = ("127.0.0.1", i)
TestCandidate(i) ==
    [sock_addr |-> <<"127.0.0.1", i>>, is_bootstrap |-> FALSE,
     lan_address |-> <<"127.0.0.1", i>>, wan_address |-> <<"127.0.0.1", i>>,
     connection_type |-> "unknown"]
TestRegistry == [i \in Candidates |-> TestCandidate(i)]
\* the list `candidates` of the test, in the order of creation
order == [i \in 1..NumCandidates |-> i]
Communities == {"c", "c2"}
None == 0

\* A point in time as the registry orders it: <<time, delivery number>>.
Unset == <<0, 0>>
NoTimestamps == [last_stumble |-> Unset, last_walk |-> Unset, last_walk_response |-> Unset]

\* s1 is earlier than s2: an earlier time, or the same time and delivered earlier
StampLess(s1, s2) == s1[1] < s2[1] \/ (s1[1] = s2[1] /\ s1[2] < s2[2])
Latest(S) == CHOOSE s \in S : \A u \in S : ~StampLess(s, u)

\* the activity of a tracker that counted stumbles alone as "last seen"
Activity_stumble_only(ts, pol, com, c) ==
    LET t == ts[com][c]
    IN IF pol = "tracker"
         THEN t.last_stumble
         ELSE Latest({t.last_stumble, t.last_walk, t.last_walk_response})

\* The candidate's most recent activity in the community.  The plain policy
\* takes the latest of stumble, walk and walk response; the tracker policy
\* treats stumble and walk response alike as "last seen".
Activity(ts, pol, com, c) ==
    LET t == ts[com][c]
    IN IF pol = "tracker"
         THEN Latest({t.last_stumble, t.last_walk_response})
         ELSE Latest({t.last_stumble, t.last_walk, t.last_walk_response})

\* "before" compared on the time value alone
Before_by_time_only(s1, s2) == s1[1] < s2[1]

\* c's activity lies before r's
Before(s1, s2) == StampLess(s1, s2)

\* the eligible candidates as they would be without the test of is_bootstrap
Eligible_with_bootstrap(ts, pol, com, r) ==
    {c \in Candidates \ {r} :
        /\ Activity(ts, pol, com, c) # Unset
        /\ pol = "plain" => Before(Activity(ts, pol, com, c), Activity(ts, pol, com, r))}

\* The candidates that may be introduced to r: not r itself, no bootstrap
\* candidate, active in this community, and (plain policy) active before r's
\* own most recent activity.
Eligible(ts, pol, com, r) ==
    {c \in Candidates \ {r} :
        /\ ~registry[c].is_bootstrap
        /\ Activity(ts, pol, com, c) # Unset
        /\ pol = "plain" => Before(Activity(ts, pol, com, c), Activity(ts, pol, com, r))}

RECURSIVE MostRecentFirst(_, _, _, _)
MostRecentFirst(ts, pol, com, S) ==
    IF S = {} THEN << >>
    ELSE LET m == CHOOSE c \in S : \A d \in S :
                      ~StampLess(Activity(ts, pol, com, c), Activity(ts, pol, com, d))
         IN <<m>> \o MostRecentFirst(ts, pol, com, S \ {m})

\* community.dispersy_yield_introduce_candidates(r): the sequence it yields
dispersy_yield_introduce_candidates(ts, pol, com, r) ==
    LET found == MostRecentFirst(ts, pol, com, Eligible(ts, pol, com, r))
    IN IF found = << >> THEN <<None>> ELSE found

\* a generator that goes on where the generator before it stopped
Restart_at_cursor(position) == position

\* The position at which a new generator starts, given where the generator
\* before it stopped: "a fresh lazy view ..., not a stored cursor".
Restart(position) == 0

\* the elements a generator yields when asked k times from position start
Yielded(view, start, k) ==
    SubSeq(view, start + 1, IF start + k < Len(view) THEN start + k ELSE Len(view))

\* an event that updated the orderings of every community
Record_in_every_community(ts, com, c, field, stamp) ==
    [m \in Communities |-> [ts[m] EXCEPT ![c][field] = stamp]]

\* An event hook stores its timestamp for this community alone.
Record(ts, com, c, field, stamp) ==
    [ts EXCEPT ![com][c][field] = stamp]

regvars == <<policy, timestamps, events, clock, pc, walker, responded, got>>
candvars == <<registry, merged, introduced>>
loadvars == <<file, loaded>>
cryptovars == <<ec, curve_order, optimized, mpi, signature, checked>>
lockvars == <<_lock, threads, access>>
xvars == <<candvars, loadvars, cryptovars, lockvars>>

\* no deduplication pass was made
NoMerge == [reference |-> None, before |-> << >>, stamps |-> << >>]
DedupIdle == merged = NoMerge

\* The two generators that the latest two calls of
\* dispersy_yield_introduce_candidates returned, made for one requester with
\* no event in between: how often next() was called on each, and what the
\* first and the second yielded.
Generators(r, asked, first, second) ==
    [requester |-> r, asked |-> asked, first |-> first, second |-> second]
NoCall == Generators(None, 0, << >>, << >>)
IntroduceIdle == introduced = NoCall

\* no seed file is read
NoFile == [readable |-> FALSE, lines |-> << >>]
NotLoaded == [done |-> FALSE, addresses |-> << >>]
LoadIdle == file = NoFile /\ loaded = NotLoaded

\* no key is in use
NotChecked == [given |-> << >>, result |-> "none"]
CryptoIdle ==
    /\ ec = 0
    /\ curve_order = 0
    /\ optimized = FALSE
    /\ mpi = << << >>, << >> >>
    /\ signature = << >>
    /\ checked = NotChecked

\* no thread is in the resolver's code
Outside == [op |-> "none", at |-> "outside", addresses |-> {}]
NoAccess == [thread |-> "none", site |-> "none", kind |-> "none", locked |-> FALSE]
LockIdle ==
    /\ _lock = "free"
    /\ threads = [foreground |-> Outside, reactor |-> Outside]
    /\ access = NoAccess

\* the parts next to the resolver and the registry
OtherIdle ==
    /\ LoadIdle
    /\ CryptoIdle
    /\ LockIdle

\* the parts a specification does not exercise
ExtraIdle ==
    /\ registry = TestRegistry
    /\ DedupIdle
    /\ IntroduceIdle
    /\ OtherIdle

\* no community has been created and no test runs
RegistryIdle ==
    /\ policy = "plain"
    /\ timestamps = [m \in Communities |-> [c \in Candidates |-> NoTimestamps]]
    /\ events = [m \in Communities |-> 0]
    /\ clock = 1
    /\ pc = "idle"
    /\ walker = None
    /\ responded = FALSE
    /\ got = [c |-> << >>, c2 |-> << >>, tracker |-> << >>]

\* Bootstrap.__init__: every address maps to None, no timer
Init ==
    /\ RegistryIdle
    /\ ExtraIdle
    /\ enabled = TRUE
    /\ \E n \in 0..MaxAddresses :
         _candidates = [a \in {_DEFAULT_ADDRESSES[i] : i \in 1..n} |-> NoCandidate]
    /\ _resolution_lc = NoTimer
    /\ timers = [t \in TimerIds |-> [state |-> "free", round |-> NoRound]]
    /\ calls = [c \in CallIds |-> NoRound]
    /\ reactor = ReactorIdle
    /\ last = NoOp

bvars == <<enabled, _candidates, _resolution_lc, timers, calls, reactor, last>>
vars == <<bvars, regvars, xvars>>

\* ---------------------------------------------------------------- actions
\* Bootstrap.enabled = b
SetEnabled(b) ==
    /\ enabled # b
    /\ enabled' = b
    /\ last' = Op("set_enabled", NoTimer, "none", {}, 0, b)
    /\ UNCHANGED <<_candidates, _resolution_lc, timers, calls, reactor>>

\* reset() as it would be if it built an empty dictionary
reset_drops_keys ==
    /\ _candidates' = [a \in {} |-> NoCandidate]
    /\ last' = Op("reset", NoTimer, "none", {}, Cardinality(candidates), enabled)
    /\ UNCHANGED <<enabled, _resolution_lc, timers, calls, reactor>>

\* Bootstrap.reset(), by the other thread
reset ==
    /\ _candidates' = [a \in Keys |-> NoCandidate]
    /\ last' = Op("reset", NoTimer, "none", {}, Cardinality(candidates), enabled)
    /\ UNCHANGED <<enabled, _resolution_lc, timers, calls, reactor>>

\* The rounds: <<"call", c>> or <<"timer", t>>
Origins == ({"call"} \X CallIds) \cup ({"timer"} \X TimerIds)
RoundOf(o) == IF o[1] = "call" THEN calls[o[2]] ELSE timers[o[2]].round
TimerOf(o) == IF o[1] = "call" THEN NoTimer ELSE o[2]

\* resolve() for origin o, lines 140-141: it reads Bootstrap.enabled, without
\* the lock; it returns False at once, or goes on to self.are_resolved.
resolve_begin(o) ==
    IF ~enabled
      THEN /\ reactor' = ReactorIdle
           /\ last' = Op("resolve", TimerOf(o), "false", {}, 0, FALSE)
      ELSE /\ reactor' = At("are_resolved", o, {})
           /\ last' = Op("resolve_called", TimerOf(o), "enabled", {}, 0, TRUE)

\* Bootstrap.resolve() called directly, up to its read of Bootstrap.enabled
resolve ==
    /\ reactor = ReactorIdle
    /\ \/ /\ ~enabled
          /\ resolve_begin(<<"call", 0>>)
       \/ /\ enabled
          /\ \E c \in CallIds :
                /\ calls[c] = NoRound
                /\ \A d \in 1..(c - 1) : calls[d] # NoRound
                /\ resolve_begin(<<"call", c>>)
    /\ UNCHANGED <<enabled, _candidates, _resolution_lc, timers, calls>>

\* resolve() called by resolution_lc (line 164), up to its read of
\* Bootstrap.enabled
ResolveByTimer ==
    /\ reactor.at = "resolve"
    /\ resolve_begin(reactor.origin)
    /\ UNCHANGED <<enabled, _candidates, _resolution_lc, timers, calls>>

\* Lines 142-144: resolve() takes the lock and reads self.are_resolved,
\* whatever Bootstrap.enabled has become; it returns True, or goes on to its
\* scan.
ResolveAreResolved ==
    /\ reactor.at = "are_resolved"
    /\ IF are_resolved
         THEN /\ reactor' = ReactorIdle
              /\ last' = Op("resolve", TimerOf(reactor.origin), "true", {}, 0, TRUE)
         ELSE /\ reactor' = At("scan", reactor.origin, {})
              /\ last' = Op("resolve_called", TimerOf(reactor.origin), "checked", {}, 0, TRUE)
    /\ UNCHANGED <<enabled, _candidates, _resolution_lc, timers, calls>>

\* Lines 145-146: the scan for the unresolved addresses, made without the
\* lock, and the lookups; resolve() then waits in gatherResults.
Scan ==
    /\ reactor.at = "scan"
    /\ IF reactor.origin[1] = "call"
         THEN /\ calls' = [calls EXCEPT ![reactor.origin[2]] = NewRound]
              /\ UNCHANGED timers
         ELSE /\ timers' = [timers EXCEPT ![reactor.origin[2]].round = NewRound]
              /\ UNCHANGED calls
    /\ reactor' = ReactorIdle
    /\ last' = Op("resolve_called", TimerOf(reactor.origin), "pending", {}, 0, TRUE)
    /\ UNCHANGED <<enabled, _candidates, _resolution_lc>>

\* The round's Deferred fires: the call slot is released, or the LoopingCall
\* reschedules itself (success) or stops for good (failure).
Finish(o, ok) ==
    IF o[1] = "call"
      THEN /\ calls' = [calls EXCEPT ![o[2]] = NoRound]
           /\ UNCHANGED timers
      ELSE /\ timers' = [timers EXCEPT ![o[2]] =
                  [state |-> IF ~ok THEN "failed"
                             ELSE IF @.state = "stopped" THEN "free" ELSE @.state,
                   round |-> NoRound]]
           /\ UNCHANGED calls

\* a failed round as it would be if it cleared the mapping
RoundFails_unresolves(o, r) ==
    /\ Finish(o, FALSE)
    /\ last' = Op("resolve", TimerOf(o), "error", DOMAIN r.ips, 0, TRUE)
    /\ _candidates' = [k \in Keys |-> NoCandidate]

\* What the generator does when gatherResults fails with FirstError
RoundFails(o, r) ==
    /\ Finish(o, FALSE)
    /\ last' = Op("resolve", TimerOf(o), "error", DOMAIN r.ips, 0, TRUE)
    /\ UNCHANGED _candidates

\* reactor.resolve(host) of round o fires with an IP; when it is the last one
\* gatherResults fires and resolve() goes on to its loop of lines 147-154.
LookupSucceeds(o, a) ==
    LET r == RoundOf(o)
        ip == DNS(a[1])
    IN /\ reactor = ReactorIdle
       /\ a \in Pending(r)
       /\ IF o[1] = "call"
            THEN /\ calls' = [calls EXCEPT ![o[2]].ips = (a :> ip) @@ @]
                 /\ UNCHANGED timers
            ELSE /\ timers' = [timers EXCEPT ![o[2]].round.ips = (a :> ip) @@ @]
                 /\ UNCHANGED calls
       /\ IF Pending(r) = {a}
            THEN /\ reactor' = At("install", o, r.addresses)
                 /\ last' = Op("lookup", TimerOf(o), "gathered", {}, 0, TRUE)
            ELSE /\ reactor' = ReactorIdle
                 /\ last' = Op("lookup", TimerOf(o), "pending", {}, 0, TRUE)
       /\ UNCHANGED <<enabled, _candidates, _resolution_lc>>

\* One turn of the loop of lines 147-154, made without the lock:
\* self._candidates[(host, port)] = candidate for one address of the round
\* (in the order of the dictionary); after the last one resolve() returns
\* True.
InstallOne(a) ==
    LET o == reactor.origin
        r == RoundOf(o)
    IN /\ reactor.at = "install"
       /\ a \in reactor.todo
       /\ _candidates' = [_candidates EXCEPT ![a] = BootstrapCandidate(r.ips[a], a[2])]
       /\ IF reactor.todo = {a}
            THEN /\ Finish(o, TRUE)
                 /\ reactor' = ReactorIdle
                 /\ last' = Op("resolve", TimerOf(o), "true", r.addresses, 0, TRUE)
            ELSE /\ reactor' = At("install", o, reactor.todo \ {a})
                 /\ last' = Op("install", TimerOf(o), "pending", {}, 0, TRUE)
                 /\ UNCHANGED <<timers, calls>>
       /\ UNCHANGED <<enabled, _resolution_lc>>

\* reactor.resolve(host) of round o fails
LookupFails(o, a) ==
    LET r == RoundOf(o)
    IN /\ reactor = ReactorIdle
       /\ a \in Pending(r)
       /\ RoundFails(o, r)
       /\ UNCHANGED <<enabled, _resolution_lc, reactor>>

\* resolution_lc() called by LoopingCall t, line 159: it reads
\* self.are_resolved (with the lock) and goes on to stop the timer or to
\* call resolve()
resolution_lc(t) ==
    /\ reactor' = At(IF are_resolved THEN "stop" ELSE "resolve", <<"timer", t>>, {})
    /\ last' = Op("tick", t, "checked", {}, 0, enabled)

\* Lines 160-161 in the call of LoopingCall t, when self._resolution_lc is lc,
\* the LoopingCall objects are tm and assert statements are dropped or not:
\* self._resolution_lc.stop() raises AttributeError on None and
\* AssertionError on a LoopingCall that is not running, which ends
\* LoopingCall t; else the timer is stopped and self._resolution_lc = None.
resolution_lc_stop(t, lc, tm, opt) ==
    IF lc = NoTimer
      THEN /\ timers' = [tm EXCEPT ![t].state = "failed"]
           /\ _resolution_lc' = lc
           /\ last' = Op("tick", t, "error", {}, 0, enabled)
      ELSE IF tm[lc].state # "running" /\ ~opt
        THEN /\ timers' = [tm EXCEPT ![t].state = "failed"]
             /\ _resolution_lc' = lc
             /\ last' = Op("tick", t, "error", {}, 0, enabled)
        ELSE /\ timers' = IF tm[lc].state # "running" THEN tm
                          ELSE [tm EXCEPT ![lc].state =
                                   IF lc = t \/ tm[lc].round = NoRound
                                     THEN "free" ELSE "stopped"]
             /\ _resolution_lc' = NoTimer
             /\ last' = Op("tick", t, "stopped", {}, 0, enabled)

\* LoopingCall t fires: only when it runs and its previous call has ended
Tick(t) ==
    /\ reactor = ReactorIdle
    /\ timers[t].state = "running"
    /\ timers[t].round = NoRound
    /\ resolution_lc(t)
    /\ UNCHANGED <<enabled, _candidates, _resolution_lc, timers, calls>>

\* the call that start(interval, now=True) makes at once
FirstCall ==
    /\ reactor.at = "lc"
    /\ resolution_lc(reactor.origin[2])
    /\ UNCHANGED <<enabled, _candidates, _resolution_lc, timers, calls>>

\* resolution_lc() found every address resolved and stops the timer
Stop ==
    /\ reactor.at = "stop"
    /\ resolution_lc_stop(reactor.origin[2], _resolution_lc, timers, optimized)
    /\ reactor' = ReactorIdle
    /\ UNCHANGED <<enabled, _candidates, calls>>

\* the guard as it would be without the test of self._resolution_lc
TimerInstallable_unguarded == enabled

\* the guard as it would be without the test of Bootstrap.enabled
TimerInstallable_ignoring_enabled == _resolution_lc = NoTimer

\* if not self._resolution_lc and Bootstrap.enabled
TimerInstallable == _resolution_lc = NoTimer /\ enabled

\* Bootstrap.resolve_until_success(interval, now): lines 165-167, up to the
\* first call start() makes when now is true
resolve_until_success(now) ==
    /\ reactor = ReactorIdle
    /\ IF TimerInstallable
         THEN \E t \in TimerIds :
                /\ timers[t].state = "free"
                /\ \A u \in 1..(t - 1) : timers[u].state # "free"
                /\ timers' = [timers EXCEPT ![t] = [state |-> "running", round |-> NoRound]]
                /\ _resolution_lc' = t
                /\ reactor' = IF now THEN At("lc", <<"timer", t>>, {}) ELSE ReactorIdle
                /\ last' = Op("resolve_until_success", t, "installed", {}, 0, enabled)
         ELSE /\ last' = Op("resolve_until_success", NoTimer, "noop", {}, 0, enabled)
              /\ UNCHANGED <<_resolution_lc, timers, reactor>>
    /\ UNCHANGED <<enabled, _candidates, calls>>

\* the reactor thread goes on in the call it is in
Continue ==
    \/ FirstCall
    \/ Stop
    \/ ResolveByTimer
    \/ ResolveAreResolved
    \/ Scan
    \/ \E a \in Keys : InstallOne(a)

Next ==
    \/ (\E b \in BOOLEAN : SetEnabled(b)) /\ UNCHANGED <<regvars, xvars>>
    \/ reset /\ UNCHANGED <<regvars, xvars>>
    \/ resolve /\ UNCHANGED <<regvars, xvars>>
    \/ (\E o \in Origins : \E a \in Keys : LookupSucceeds(o, a)) /\ UNCHANGED <<regvars, xvars>>
    \/ (\E o \in Origins : \E a \in Keys : LookupFails(o, a)) /\ UNCHANGED <<regvars, xvars>>
    \/ (\E t \in TimerIds : Tick(t)) /\ UNCHANGED <<regvars, xvars>>
    \/ (\E now \in BOOLEAN : resolve_until_success(now)) /\ UNCHANGED <<regvars, xvars>>
    \/ FirstCall /\ UNCHANGED <<regvars, xvars>>
    \/ Stop /\ UNCHANGED <<regvars, xvars>>
    \/ ResolveByTimer /\ UNCHANGED <<regvars, xvars>>
    \/ ResolveAreResolved /\ UNCHANGED <<regvars, xvars>>
    \/ Scan /\ UNCHANGED <<regvars, xvars>>
    \/ (\E a \in Keys : InstallOne(a)) /\ UNCHANGED <<regvars, xvars>>

Spec == Init /\ [][Next]_vars

\* The resolver driven by its timer alone, with a fair scheduler: the reactor
\* thread goes on in the call it is in, a LoopingCall that runs keeps firing,
\* and a lookup that is retried again and again eventually succeeds.
AllAddresses == {_DEFAULT_ADDRESSES[i] : i \in 1..MaxAddresses}

NextLive ==
    \/ resolve /\ UNCHANGED <<regvars, xvars>>
    \/ (\E o \in Origins : \E a \in Keys : LookupSucceeds(o, a)) /\ UNCHANGED <<regvars, xvars>>
    \/ (\E o \in Origins : \E a \in Keys : LookupFails(o, a)) /\ UNCHANGED <<regvars, xvars>>
    \/ (\E t \in TimerIds : Tick(t)) /\ UNCHANGED <<regvars, xvars>>
    \/ (\E now \in BOOLEAN : resolve_until_success(now)) /\ UNCHANGED <<regvars, xvars>>
    \/ Continue /\ UNCHANGED <<regvars, xvars>>

LiveSpec ==
    /\ Init
    /\ [][NextLive]_vars
    /\ WF_vars((\E t \in TimerIds : Tick(t)) /\ UNCHANGED <<regvars, xvars>>)
    /\ WF_vars(Continue /\ UNCHANGED <<regvars, xvars>>)
    /\ \A o \in Origins : \A a \in AllAddresses :
          SF_vars(LookupSucceeds(o, a) /\ UNCHANGED <<regvars, xvars>>)

\* --------------------------------------------- the test of the introductions
\* time(): never goes back
Times == {t \in {clock, clock + 1} : t <= MaxTime}

\* candidate.stumble(community, now)
stumble(com, c, now) ==
    /\ events' = [events EXCEPT ![com] = @ + 1]
    /\ timestamps' = Record(timestamps, com, c, "last_stumble", <<now, events[com] + 1>>)
    /\ clock' = now

\* candidate.walk(community, now, timeout)
walk(com, c, now) ==
    /\ events' = [events EXCEPT ![com] = @ + 1]
    /\ timestamps' = Record(timestamps, com, c, "last_walk", <<now, events[com] + 1>>)
    /\ clock' = now

\* candidate.walk_response(community): no time is passed, the response is
\* stamped with the latest time the registry has seen
walk_response(com, c) ==
    /\ events' = [events EXCEPT ![com] = @ + 1]
    /\ timestamps' = Record(timestamps, com, c, "last_walk_response", <<clock, events[com] + 1>>)
    /\ clock' = clock

\* c.dispersy_yield_introduce_candidates(candidate).next(), after the event
Introduction(com, c) ==
    Head(dispersy_yield_introduce_candidates(timestamps', policy, com, c))

Reversed(q) == [i \in 1..Len(q) |-> q[Len(q) + 1 - i]]

\* __test_introduce, first loop: the candidates stumble on the fresh community
\* c one after another, each asking for an introduction right away.
TestIntroduce ==
    /\ pc = "c"
    /\ LET c == order[Len(got.c) + 1]
       IN \E now \in Times :
            /\ stumble("c", c, now)
            /\ got' = [got EXCEPT !.c = Append(@, Introduction("c", c))]
    /\ pc' = IF Len(got'.c) < NumCandidates THEN "c" ELSE "c2"
    /\ UNCHANGED <<policy, walker, responded>>

\* __test_introduce, second loop: the same candidates stumble in reverse order
\* on a second fresh community c2.
TestIntroduceReversed ==
    /\ pc = "c2"
    /\ LET c == Reversed(order)[Len(got.c2) + 1]
       IN \E now \in Times :
            /\ stumble("c2", c, now)
            /\ got' = [got EXCEPT !.c2 = Append(@, Introduction("c2", c))]
    /\ pc' = IF Len(got'.c2) < NumCandidates THEN "c2"
             ELSE IF policy = "tracker" THEN "walk" ELSE "done"
    /\ UNCHANGED <<policy, walker, responded>>

\* test_tracker_yield_introduce_candidates: a candidate walks in c ...
TestWalk ==
    /\ pc = "walk"
    /\ \E c \in Candidates : \E now \in Times :
         /\ walk("c", c, now)
         /\ walker' = c
    /\ pc' = "walk_response"
    /\ UNCHANGED <<policy, responded, got>>

\* ... and its walk is answered, or the answer has not come when the
\* candidates stumble again
TestWalkResponse ==
    /\ pc = "walk_response"
    /\ \/ /\ walk_response("c", walker)
          /\ responded' = TRUE
       \/ /\ responded' = FALSE
          /\ UNCHANGED <<timestamps, events, clock>>
    /\ pc' = "tracker"
    /\ UNCHANGED <<policy, walker, got>>

\* ... and then all candidates stumble in c again, in the first order
TestTracker ==
    /\ pc = "tracker"
    /\ LET c == order[Len(got.tracker) + 1]
       IN \E now \in Times :
            /\ stumble("c", c, now)
            /\ got' = [got EXCEPT !.tracker = Append(@, Introduction("c", c))]
    /\ pc' = IF Len(got'.tracker) < NumCandidates THEN "tracker" ELSE "done"
    /\ UNCHANGED <<policy, walker, responded>>

\* setUp and community_create_method(self.mm): the candidates are created,
\* nothing has happened to them
InitCand ==
    /\ ExtraIdle
    /\ policy \in {"plain", "tracker"}
    /\ timestamps = [m \in Communities |-> [c \in Candidates |-> NoTimestamps]]
    /\ events = [m \in Communities |-> 0]
    /\ clock = 1
    /\ pc = "c"
    /\ walker = None
    /\ responded = FALSE
    /\ got = [c |-> << >>, c2 |-> << >>, tracker |-> << >>]
    /\ enabled = TRUE
    /\ _candidates = << >>
    /\ _resolution_lc = NoTimer
    /\ timers = [t \in TimerIds |-> [state |-> "free", round |-> NoRound]]
    /\ calls = [c \in CallIds |-> NoRound]
    /\ reactor = ReactorIdle
    /\ last = NoOp

NextCand ==
    \/ TestIntroduce /\ UNCHANGED <<bvars, xvars>>
    \/ TestIntroduceReversed /\ UNCHANGED <<bvars, xvars>>
    \/ TestWalk /\ UNCHANGED <<bvars, xvars>>
    \/ TestWalkResponse /\ UNCHANGED <<bvars, xvars>>
    \/ TestTracker /\ UNCHANGED <<bvars, xvars>>

SpecCand == InitCand /\ [][NextCand]_vars

\* ------------------------------------------- the registry under any events
\* number of events delivered to a community
MaxEvents == 3

\* the resolver has been constructed without addresses and is left alone
BootstrapIdle ==
    /\ enabled = TRUE
    /\ _candidates = << >>
    /\ _resolution_lc = NoTimer
    /\ timers = [t \in TimerIds |-> [state |-> "free", round |-> NoRound]]
    /\ calls = [c \in CallIds |-> NoRound]
    /\ reactor = ReactorIdle
    /\ last = NoOp

\* A community whose registry holds the candidates of the test, the first few
\* of them created as bootstrap candidates (events reach the candidates in
\* any order, so only their number matters).
InitRegistry ==
    /\ BootstrapIdle
    /\ policy \in {"plain", "tracker"}
    /\ timestamps = [m \in Communities |-> [c \in Candidates |-> NoTimestamps]]
    /\ events = [m \in Communities |-> 0]
    /\ clock = 1
    /\ pc = "registry"
    /\ walker = None
    /\ responded = FALSE
    /\ got = [c |-> << >>, c2 |-> << >>, tracker |-> << >>]
    /\ DedupIdle
    /\ IntroduceIdle
    /\ OtherIdle
    /\ \E nb \in 0..NumCandidates :
         registry = [i \in Candidates |-> [TestCandidate(i) EXCEPT !.is_bootstrap = (i <= nb)]]

\* The dispatch layer delivers a stumble, a walk or a walk response. Events
\* are handled one at a time: the handler of the event before has returned,
\* and no generator it made is in use.
Deliver(com) ==
    /\ events[com] < MaxEvents
    /\ introduced = NoCall
    /\ \E c \in Candidates :
         \/ \E now \in Times : stumble(com, c, now)
         \/ \E now \in Times : walk(com, c, now)
         \/ /\ timestamps[com][c].last_walk # Unset
            /\ walk_response(com, c)
    /\ UNCHANGED <<policy, pc, walker, responded, got, introduced>>

\* The handler of the latest event asks for the introductions to r twice:
\* gen = community.dispersy_yield_introduce_candidates(r) and k times
\* gen.next(), and the same again. Each generator starts on the view of the
\* registry as it is now; the second is made when the first stands behind
\* what it yielded. (The calls are followed in the states that leave room
\* for another event.)
Introduce(com, r) ==
    /\ events[com] < MaxEvents
    /\ introduced = NoCall
    /\ LET view == dispersy_yield_introduce_candidates(timestamps, policy, com, r)
       IN \E k \in 1..Len(view) :
            LET first == Yielded(view, 0, k)
                second == Yielded(view, Restart(Len(first)), k)
            IN introduced' = Generators(r, k, first, second)
    /\ UNCHANGED regvars

NextRegistry ==
    \/ Deliver("c") /\ UNCHANGED <<bvars, registry, merged, loadvars, cryptovars, lockvars>>
    \/ (\E r \in Candidates : Introduce("c", r))
          /\ UNCHANGED <<bvars, registry, merged, loadvars, cryptovars, lockvars>>

SpecRegistry == InitRegistry /\ [][NextRegistry]_vars

\* ------------------------------------------------- the deduplication pass
\* the candidates test_merge_candidates registers
NumMerged == 4
\* number of distinct WAN hosts among the registered candidates
MaxHosts == 2

WanHost(i) == <<"1.1.1.1", "2.2.2.2", "3.3.3.3">>[i]
WanHosts == {WanHost(i) : i \in 1..MaxHosts}
ConnectionTypes == {"unknown", "symmetric-NAT"}

\* the LAN addresses the candidates report; the test gives every candidate
\* the first
LanAddresses == {<<"192.168.0.1", 1>>, <<"192.168.0.2", 1>>}

\* c.create_candidate((host, i), False, lan, (host, i), type)
MergeCandidate(i, host, lan, type) ==
    [sock_addr |-> <<host, i>>, is_bootstrap |-> FALSE,
     lan_address |-> lan, wan_address |-> <<host, i>>,
     connection_type |-> type]

\* the four candidates of the test: unknown, symmetric-NAT, symmetric-NAT,
\* unknown, all with the LAN address ("192.168.0.1", 1)
MergeRegistry ==
    [i \in 1..NumMerged |->
        MergeCandidate(i, "1.1.1.1", <<"192.168.0.1", 1>>,
                       IF i \in {2, 3} THEN "symmetric-NAT" ELSE "unknown")]

\* the timestamps of a fresh community, as in the test
Fresh == [m \in Communities |-> [c \in Candidates |-> NoTimestamps]]

\* The timestamps after three events in community c: the second candidate
\* stumbled at time 1, the third walked at time 1, the fourth stumbled at
\* time 2.
AfterEvents ==
    Record(Record(Record(Fresh, "c", 2, "last_stumble", <<1, 1>>),
                  "c", 3, "last_walk", <<1, 2>>),
           "c", 4, "last_stumble", <<2, 3>>)

SameWanHost(reg, c, ref) == reg[c].wan_address[1] = reg[ref].wan_address[1]

\* "the WAN-IP match is considered authoritative ... whenever either
\* candidate's connection_type is symmetric-NAT"
Authoritative(reg, c, ref) ==
    \/ reg[c].connection_type = "symmetric-NAT"
    \/ reg[ref].connection_type = "symmetric-NAT"

\* "unless other evidence corroborates the match": the two report one LAN
\* address, as all candidates of test_merge_candidates do
Corroborated(reg, c, ref) == reg[c].lan_address = reg[ref].lan_address

\* folding on the WAN host alone
Folded_on_host_alone(reg, ref) ==
    {c \in DOMAIN reg \ {ref} : SameWanHost(reg, c, ref)}

\* folding that looks at the connection type of the reference alone
Folded_by_type_of_reference(reg, ref) ==
    {c \in DOMAIN reg \ {ref} :
        /\ SameWanHost(reg, c, ref)
        /\ \/ reg[ref].connection_type = "symmetric-NAT"
           \/ Corroborated(reg, c, ref)}

\* The candidates folded into the reference, decided pair by pair: the WAN
\* hosts match, and the match is authoritative or corroborated.
Folded(reg, ref) ==
    {c \in DOMAIN reg \ {ref} :
        /\ SameWanHost(reg, c, ref)
        /\ \/ Authoritative(reg, c, ref)
           \/ Corroborated(reg, c, ref)}

TimestampFields == {"last_stumble", "last_walk", "last_walk_response"}

\* The timestamps after the pass: in every community the reference has, for
\* each field, the most recent value across itself and the folded
\* candidates; the folded candidates are gone.
MergedTimestamps(ts, reg, ref) ==
    [m \in Communities |->
        [c \in Candidates |->
            IF c = ref
              THEN [f \in TimestampFields |->
                        Latest({ts[m][d][f] : d \in Folded(reg, ref) \cup {ref}})]
              ELSE IF c \in Folded(reg, ref) THEN NoTimestamps ELSE ts[m][c]]]

\* the registry after the pass: the folded entries are removed, the
\* reference keeps its entry
filter_duplicate(reg, ref) ==
    [c \in DOMAIN reg \ Folded(reg, ref) |-> reg[c]]

\* A community with NumMerged registered candidates of any type, at any of
\* the WAN hosts, candidate i at port i, with any of the LAN addresses;
\* nothing has happened to them yet, or the three events have.
InitDedup ==
    /\ BootstrapIdle
    /\ policy = "plain"
    /\ \/ timestamps = Fresh /\ events = [m \in Communities |-> 0] /\ clock = 1
       \/ timestamps = AfterEvents /\ events = [c |-> 3, c2 |-> 0] /\ clock = 2
    /\ pc = "idle"
    /\ walker = None
    /\ responded = FALSE
    /\ got = [c |-> << >>, c2 |-> << >>, tracker |-> << >>]
    /\ DedupIdle
    /\ IntroduceIdle
    /\ OtherIdle
    /\ \E host \in [1..NumMerged -> WanHosts], lan \in [1..NumMerged -> LanAddresses],
          type \in [1..NumMerged -> ConnectionTypes] :
         registry = [i \in 1..NumMerged |-> MergeCandidate(i, host[i], lan[i], type[i])]

\* self.d._filter_duplicate_candidate(reference)
FilterDuplicate(ref) ==
    /\ merged = NoMerge
    /\ ref \in DOMAIN registry
    /\ registry' = filter_duplicate(registry, ref)
    /\ timestamps' = MergedTimestamps(timestamps, registry, ref)
    /\ merged' = [reference |-> ref, before |-> registry, stamps |-> timestamps]
    /\ introduced' = introduced
    /\ UNCHANGED <<policy, events, clock, pc, walker, responded, got>>
    /\ UNCHANGED <<loadvars, cryptovars, lockvars>>

NextDedup ==
    \E ref \in 1..NumMerged : FilterDuplicate(ref) /\ UNCHANGED bvars

SpecDedup == InitDedup /\ [][NextDedup]_vars

\* ------------------------------------------------------- the seed file
\* number of lines of a seed file
MaxLines == 3

\* A word of a line: its text, whether decode("UTF-8") accepts it, whether
\* int() accepts it, and its value then.
Word(text, utf8, digits, value) ==
    [text |-> text, utf8 |-> utf8, digits |-> digits, value |-> value]

\* A line as line.strip() and line.split() see it: whether it starts with
\* "#", and its words.
Line(comment, words) == [comment |-> comment, words |-> words]

SeedLines ==
    { Line(TRUE,  <<Word("#", TRUE, FALSE, 0), Word("seeds", TRUE, FALSE, 0)>>),
      Line(FALSE, <<Word("dispersy1.tribler.org", TRUE, FALSE, 0), Word("6421", TRUE, TRUE, 6421)>>),
      Line(FALSE, <<Word("dispersy2.tribler.org", TRUE, FALSE, 0), Word("6422", TRUE, TRUE, 6422)>>),
      Line(FALSE, << >>),
      Line(FALSE, <<Word("dispersy3.tribler.org", TRUE, FALSE, 0)>>),
      Line(FALSE, <<Word("dispersy4.tribler.org", TRUE, FALSE, 0), Word("http", TRUE, FALSE, 0)>>),
      Line(FALSE, <<Word("dispersy5.tribler.org", TRUE, FALSE, 0), Word("6425", TRUE, TRUE, 6425),
                    Word("backup", TRUE, FALSE, 0)>>),
      Line(FALSE, <<Word("\\xff\\xfe", FALSE, FALSE, 0), Word("6426", TRUE, TRUE, 6426)>>) }

\* host, port = line.split(), host.decode("UTF-8") and int(port) raise nothing
WellFormed(line) ==
    /\ Len(line.words) = 2
    /\ line.words[1].utf8
    /\ line.words[2].digits

\* (host.decode("UTF-8"), int(port)), for a line where neither raises
Address(line) == <<line.words[1].text, line.words[2].value>>

\* the loop over the lines from line i on, addresses holding what was
\* appended so far: an exception leaves the loop
RECURSIVE ReadLines(_, _, _)
ReadLines(lines, i, addresses) ==
    IF i > Len(lines) THEN addresses
    ELSE IF lines[i].comment THEN ReadLines(lines, i + 1, addresses)
    ELSE IF ~WellFormed(lines[i]) THEN addresses
    ELSE ReadLines(lines, i + 1, Append(addresses, Address(lines[i])))

\* Bootstrap.load_addresses_from_file(filename)
load_addresses_from_file(f) ==
    IF ~f.readable THEN << >> ELSE ReadLines(f.lines, 1, << >>)

RECURSIVE SeqsUpTo(_, _)
SeqsUpTo(S, n) ==
    IF n = 0 THEN {<< >>}
    ELSE LET shorter == SeqsUpTo(S, n - 1)
         IN shorter \cup {Append(q, x) : q \in shorter, x \in S}

\* any seed file of up to MaxLines lines, or one that cannot be opened
InitLoad ==
    /\ BootstrapIdle
    /\ RegistryIdle
    /\ registry = TestRegistry
    /\ DedupIdle
    /\ IntroduceIdle
    /\ loaded = NotLoaded
    /\ CryptoIdle
    /\ LockIdle
    /\ \/ file \in {[readable |-> TRUE, lines |-> q] : q \in SeqsUpTo(SeedLines, MaxLines)}
       \/ file = NoFile

LoadAddressesFromFile ==
    /\ ~loaded.done
    /\ loaded' = [done |-> TRUE, addresses |-> load_addresses_from_file(file)]
    /\ UNCHANGED <<file, candvars, cryptovars, lockvars>>

NextLoad ==
    LoadAddressesFromFile /\ UNCHANGED <<bvars, regvars>>

SpecLoad == InitLoad /\ [][NextLoad]_vars

\* ------------------------------------------------------ the signatures
\* size of the largest key, in bits
MaxBits == 16
\* the byte values a scalar is made of
ByteValues == {0, 1, 128, 255}

\* int(ceil(len(ec) / 8.0))
CeilBytes(bits) == (bits + 7) \div 8

\* ECCrypto.get_signature_length(ec)
get_signature_length(bits) == CeilBytes(bits) * 2

\* Struct(">L"): four bytes, most significant first
_STRUCT_L_pack(n) ==
    <<(n \div 16777216) % 256, (n \div 65536) % 256, (n \div 256) % 256, n % 256>>
_STRUCT_L_unpack_from(x) == x[1] * 16777216 + x[2] * 65536 + x[3] * 256 + x[4]

RECURSIVE Zeros(_)
Zeros(n) == IF n <= 0 THEN << >> ELSE <<0>> \o Zeros(n - 1)

\* x[-k:]
LastBytes(x, k) == IF k = 0 THEN x ELSE SubSeq(x, Len(x) - k + 1, Len(x))

\* the number a magnitude stands for, most significant byte first
RECURSIVE Value(_)
Value(m) == IF m = << >> THEN 0 ELSE Value(SubSeq(m, 1, Len(m) - 1)) * 256 + m[Len(m)]

\* the magnitude of a number: its bytes without a leading zero byte
RECURSIVE Bytes(_)
Bytes(n) == IF n = 0 THEN << >> ELSE Bytes(n \div 256) \o <<n % 256>>

\* The orders n of the group of a key of this size: the order is the
\* curve's. It is just below 2^bits or above it on a curve of cofactor 1
\* (above on secp160r1, secp224k1; 271 on a curve over GF(251)), near
\* 2^bits / 2 on a curve of cofactor 2 (sect163k1, sect571r1: the levels
\* u"very-low" and u"high") and near 2^bits / 4 on a curve of cofactor 4
\* (sect233k1, sect409k1: u"low" and u"medium"; 4007 and 2003 at 13 bits).
Orders(bits) ==
    {2 ^ bits - 1, 2 ^ bits + 2 ^ (bits \div 2) - 1}
        \cup {(2 ^ bits) \div h - 1 : h \in {k \in {2, 4} : (2 ^ bits) \div k >= 4}}

\* The magnitudes of the scalars of a key: no leading zero byte, not zero,
\* and below the order n of the group; on a curve whose order is above
\* 2^bits a magnitude can have one byte more than ceil(bits / 8).
Scalars(bits, n) ==
    {m \in SeqsUpTo(ByteValues, CeilBytes(bits) + 1) :
        /\ m # << >>
        /\ m[1] # 0
        /\ Value(m) < n}

\* r is the first coordinate of a point, an element of the field of the
\* curve, taken modulo n: it is below n and below 2^bits
Abscissa(bits, n) == IF n < 2 ^ bits THEN n ELSE 2 ^ bits

\* The MPI of a scalar as ec.sign_dsa returns it: the length of the data,
\* then the magnitude behind a zero byte when its top bit is set.
MPI(m) ==
    LET data == IF m[1] >= 128 THEN <<0>> \o m ELSE m
    IN _STRUCT_L_pack(Len(data)) \o data

\* ECCrypto.create_signature(ec, digest), for the pair sign_dsa returned
create_signature(bits, mpi_r, mpi_s) ==
    LET length == CeilBytes(bits)
        length_r == _STRUCT_L_unpack_from(mpi_r)
        r == LastBytes(mpi_r, IF length < length_r THEN length ELSE length_r)
        length_s == _STRUCT_L_unpack_from(mpi_s)
        s == LastBytes(mpi_s, IF length < length_s THEN length ELSE length_s)
    IN Zeros(length - Len(r)) \o r \o Zeros(length - Len(s)) \o s

\* while r and r[0] == "\x00": r = r[1:]
RECURSIVE StripZeros(_)
StripZeros(x) ==
    IF x # << >> /\ x[1] = 0 THEN StripZeros(Tail(x)) ELSE x

\* if ord(r[0]) & 128: r = "\x00" + r; mpi_r = _STRUCT_L.pack(len(r)) + r
\* (only where r[0] exists)
Rebuilt(x) ==
    LET r == IF StripZeros(x)[1] >= 128 THEN <<0>> \o StripZeros(x) ELSE StripZeros(x)
    IN _STRUCT_L_pack(Len(r)) \o r

\* the magnitude of the scalar in an MPI: its data without the zero byte
\* that guards the top bit
Magnitude(x) == StripZeros(SubSeq(x, 5, Len(x)))

\* the MPI of n - s, for the MPI of s
Negated(n, mpi_s) == MPI(Bytes(n - Value(Magnitude(mpi_s))))

\* ec.verify_dsa(digest, mpi_r, mpi_s), where made holds the pairs that the
\* nonces make for the digest and the key: the library accepts each of
\* them, and with (r, s) the pair (r, n - s), and no other pair.
verify_dsa(n, made, mpi_r, mpi_s) ==
    \E pair \in made :
        /\ mpi_r = pair[1]
        /\ mpi_s \in {pair[2], Negated(n, pair[2])}

\* ECCrypto.is_valid_signature(ec, digest, signature): "true", "false", or
\* the exception that leaves it
is_valid_signature(bits, opt, n, made, sig) ==
    IF ~opt /\ Len(sig) # get_signature_length(bits) THEN "AssertionError"
    ELSE LET length == Len(sig) \div 2
             r == SubSeq(sig, 1, length)
             s == SubSeq(sig, length + 1, Len(sig))
         IN IF StripZeros(r) = << >> \/ StripZeros(s) = << >> THEN "false"
            ELSE IF verify_dsa(n, made, Rebuilt(r), Rebuilt(s)) THEN "true" ELSE "false"

\* signatures that are not well formed, made from a signature: of another
\* length, or with a half of zero bytes only
Malformed(sig) ==
    LET length == Len(sig) \div 2
    IN { << >>, Tail(sig), sig \o <<1>>, sig \o sig,
         Zeros(length) \o SubSeq(sig, length + 1, Len(sig)),
         SubSeq(sig, 1, length) \o Zeros(length),
         Zeros(Len(sig)) }

\* the scalar in the bytes x is below n (and x has no more bytes than n)
Below(x, n) ==
    /\ Len(StripZeros(x)) <= Len(Bytes(n))
    /\ Value(StripZeros(x)) < n

\* r is the first coordinate x of a point taken modulo n. Where n is well
\* below 2^bits (a curve with a cofactor) another element x + n of the field
\* gives the same r, and the nonces of the points at it make other pairs
\* with this r.
SharedAbscissa(bits, n, r) == Value(StripZeros(r)) + n < 2 ^ bits

\* The pairs that the nonces make for the digest and the key, as far as the
\* check of sig can tell: the pairs sign_dsa returned, and perhaps the pair
\* that sig holds. Which pairs other nonces make depends on the key and on
\* the digest. The nonces k and n - k of one point make s and n - s for its
\* r; an r that only one element of the field gives has no other s.
NoncePairs(bits, n, returned, sig) ==
    LET length == Len(sig) \div 2
        r == SubSeq(sig, 1, length)
        s == SubSeq(sig, length + 1, Len(sig))
    IN {returned} \cup
       IF /\ StripZeros(r) # << >>
          /\ StripZeros(s) # << >>
          /\ Below(r, Abscissa(bits, n))
          /\ Below(s, n)
          /\ \/ \A pair \in returned : Rebuilt(r) # pair[1]
             \/ SharedAbscissa(bits, n, r)
         THEN {returned \cup {<<Rebuilt(r), Rebuilt(s)>>}}
         ELSE {}

\* a key of any size on a curve of any order and cofactor, in an interpreter
\* with or without assert statements
InitCrypto ==
    /\ BootstrapIdle
    /\ RegistryIdle
    /\ registry = TestRegistry
    /\ DedupIdle
    /\ IntroduceIdle
    /\ LoadIdle
    /\ LockIdle
    /\ ec \in 1..MaxBits
    /\ curve_order \in Orders(ec)
    /\ optimized \in BOOLEAN
    /\ mpi = << << >>, << >> >>
    /\ signature = << >>
    /\ checked = NotChecked

\* create_signature(ec, digest): sign_dsa returns the pair of some nonce
CreateSignature ==
    /\ signature = << >>
    /\ \E r, s \in Scalars(ec, curve_order) :
         /\ Value(r) < Abscissa(ec, curve_order)
         /\ mpi' = <<MPI(r), MPI(s)>>
         /\ signature' = create_signature(ec, MPI(r), MPI(s))
    /\ UNCHANGED <<ec, curve_order, optimized, checked>>

\* is_valid_signature(ec, digest, sig) when sign_dsa returned the pairs of
\* returned for the digest
IsValid(returned, sig) ==
    /\ checked = NotChecked
    /\ \E made \in NoncePairs(ec, curve_order, returned, sig) :
         checked' = [given |-> sig,
                     result |-> is_valid_signature(ec, optimized, curve_order, made, sig)]
    /\ UNCHANGED <<ec, curve_order, optimized, mpi, signature>>

\* is_valid_signature(ec, digest, sig) for the signature made or another one
IsValidSignature(sig) ==
    /\ signature # << >>
    /\ IsValid({mpi}, sig)

\* is_valid_signature(ec, digest, sig) for the fixed-width form of (r, n - s)
IsValidNegated ==
    /\ signature # << >>
    /\ checked = NotChecked
    /\ IsValidSignature(create_signature(ec, mpi[1], Negated(curve_order, mpi[2])))

\* the signature made with its halves exchanged, and with one bit flipped
Tampered(sig) ==
    LET length == Len(sig) \div 2
        flipped == IF sig[Len(sig)] % 2 = 0 THEN sig[Len(sig)] + 1 ELSE sig[Len(sig)] - 1
    IN { SubSeq(sig, length + 1, Len(sig)) \o SubSeq(sig, 1, length),
         SubSeq(sig, 1, Len(sig) - 1) \o <<flipped>> }

\* is_valid_signature(ec, digest, create_signature(ec, digest)) for a second
\* signature of the digest: sign_dsa returns the pair of another nonce, of
\* another r
IsValidAgain ==
    /\ signature # << >>
    /\ checked = NotChecked
    /\ \E r, s \in Scalars(ec, curve_order) :
         /\ Value(r) < Abscissa(ec, curve_order)
         /\ MPI(r) # mpi[1]
         /\ IsValid({mpi, <<MPI(r), MPI(s)>>}, create_signature(ec, MPI(r), MPI(s)))

NextCrypto ==
    \/ CreateSignature /\ UNCHANGED <<bvars, regvars, candvars, loadvars, lockvars>>
    \/ IsValidSignature(signature) /\ UNCHANGED <<bvars, regvars, candvars, loadvars, lockvars>>
    \/ IsValidNegated /\ UNCHANGED <<bvars, regvars, candvars, loadvars, lockvars>>
    \/ IsValidAgain /\ UNCHANGED <<bvars, regvars, candvars, loadvars, lockvars>>
    \/ (signature # << >> /\ checked = NotChecked /\ \E sig \in Tampered(signature) : IsValidSignature(sig))
          /\ UNCHANGED <<bvars, regvars, candvars, loadvars, lockvars>>
    \/ (signature # << >> /\ checked = NotChecked /\ \E sig \in Malformed(signature) : IsValidSignature(sig))
          /\ UNCHANGED <<bvars, regvars, candvars, loadvars, lockvars>>

SpecCrypto == InitCrypto /\ [][NextCrypto]_vars

\* ------------------------------------------------------------ the lock
\* The foreground thread queries the resolver while the reactor thread runs
\* resolve(). A thread is outside the resolver's code, or in one of its
\* operations at a place: "locked" (inside "with self._lock:", before the
\* access), "accessed" (after it, before the lock is released), "scan" (at
\* line 145), "gather" (waiting at line 146 for the addresses looked up) or
\* "install" (in the loop of lines 147-154, some addresses written).
Queries == {"are_resolved", "candidates", "progress", "reset"}

In(op, at, addresses) == [op |-> op, at |-> at, addresses |-> addresses]

\* an access to self._candidates by a thread: it holds the lock or not
Access(th, site, kind) ==
    [thread |-> th, site |-> site, kind |-> kind, locked |-> _lock = th]

\* the resolver as constructed, no thread in its code
InitLock == Init

\* with self._lock: (lines 97, 107, 118, 127), entered by a query of the
\* foreground thread
Enter(op) ==
    /\ threads.foreground = Outside
    /\ _lock = "free"
    /\ _lock' = "foreground"
    /\ threads' = [threads EXCEPT !.foreground = In(op, "locked", {})]
    /\ UNCHANGED <<access, _candidates>>

\* resolve() is called on the reactor thread and reaches self.are_resolved
\* (line 142), which takes the lock
ResolveEnters ==
    /\ threads.reactor = Outside
    /\ _lock = "free"
    /\ _lock' = "reactor"
    /\ threads' = [threads EXCEPT !.reactor = In("resolve", "locked", {})]
    /\ UNCHANGED <<access, _candidates>>

\* the body of the with statement: the mapping is read, or rebuilt by reset()
Inside(th) ==
    /\ threads[th].at = "locked"
    /\ IF threads[th].op = "reset"
         THEN /\ access' = Access(th, "reset", "write")
              /\ _candidates' = [a \in Keys |-> NoCandidate]
         ELSE /\ access' = Access(th, IF th = "reactor" THEN "are_resolved" ELSE threads[th].op, "read")
              /\ UNCHANGED _candidates
    /\ threads' = [threads EXCEPT ![th].at = "accessed"]
    /\ UNCHANGED _lock

\* the end of the with statement; resolve() returns when all is resolved and
\* goes on to line 145 otherwise
Leave(th) ==
    /\ threads[th].at = "accessed"
    /\ _lock' = "free"
    /\ threads' = [threads EXCEPT ![th] =
          IF th = "reactor" /\ ~are_resolved THEN In("resolve", "scan", {}) ELSE Outside]
    /\ UNCHANGED <<access, _candidates>>

\* addresses = [address for address, candidate in self._candidates.iteritems()
\*              if not candidate]  (line 145)
ScanUnlocked ==
    /\ threads.reactor.at = "scan"
    /\ access' = Access("reactor", "resolve", "read")
    /\ threads' = [threads EXCEPT !.reactor = In("resolve", "gather", Unresolved)]
    /\ UNCHANGED <<_lock, _candidates>>

\* gatherResults has fired: one turn of the loop of lines 147-154,
\* self._candidates[(host, port)] = candidate (line 151), for one of the
\* addresses looked up; after the last one resolve() returns
WriteUnlocked(a) ==
    /\ threads.reactor.at \in {"gather", "install"}
    /\ a \in threads.reactor.addresses
    /\ access' = Access("reactor", "resolve", "write")
    /\ _candidates' = [_candidates EXCEPT ![a] = BootstrapCandidate(DNS(a[1]), a[2])]
    /\ threads' = [threads EXCEPT !.reactor =
          IF threads.reactor.addresses = {a}
            THEN Outside
            ELSE In("resolve", "install", threads.reactor.addresses \ {a})]
    /\ UNCHANGED _lock

\* gatherResults fails: resolve() ends without another access
GatherFails ==
    /\ threads.reactor.at = "gather"
    /\ threads' = [threads EXCEPT !.reactor = Outside]
    /\ UNCHANGED <<_lock, access, _candidates>>

lockrest == <<enabled, _resolution_lc, timers, calls, reactor, last, regvars, candvars, loadvars, cryptovars>>

NextLock ==
    \/ (\E op \in Queries : Enter(op)) /\ UNCHANGED lockrest
    \/ ResolveEnters /\ UNCHANGED lockrest
    \/ (\E th \in {"foreground", "reactor"} : Inside(th)) /\ UNCHANGED lockrest
    \/ (\E th \in {"foreground", "reactor"} : Leave(th)) /\ UNCHANGED lockrest
    \/ ScanUnlocked /\ UNCHANGED lockrest
    \/ (\E a \in Keys : WriteUnlocked(a)) /\ UNCHANGED lockrest
    \/ GatherFails /\ UNCHANGED lockrest

SpecLock == InitLock /\ [][NextLock]_vars

\* ----------------------------------------------------------------- claims
\* C1: when a resolve() round completes, every address whose own lookup
\* succeeded in that round is resolved, whichever other lookups failed.
C1_SucceededLookupsAreInstalled ==
    last.op = "resolve" => \A a \in last.ok : _candidates[a] # NoCandidate

\* C2: resolve() always completes with a boolean result, never with an error.
C2_ResolveNeverFails ==
    last.op = "resolve" => last.outcome \in {"true", "false"}

\* C3: with resolution enabled and a non-empty address list, resolve() returns
\* true exactly when at least one configured address is resolved at completion.
C3_TrueIffSomeResolved ==
    (last.op = "resolve" /\ last.enabled /\ Keys # {})
        => (last.outcome = "true" <=> candidates # {})

\* C4: once installed, the timer stays active for as long as some configured
\* address is unresolved.
C4_TimerActiveWhileUnresolved ==
    (_resolution_lc # NoTimer /\ ~are_resolved)
        => timers[_resolution_lc].state = "running"

\* C5: after resolve_until_success() has installed the timer, the resolver
\* eventually has every address resolved, progress (N, N), and the timer
\* cancelled and cleared.
C5_EventuallyResolvedAndCleared ==
    (_resolution_lc # NoTimer)
        ~> (/\ are_resolved
            /\ progress = <<Cardinality(Keys), Cardinality(Keys)>>
            /\ _resolution_lc = NoTimer)

\* C6: at most one periodic timer exists and at most one timer-driven round is
\* in flight, and resolve_until_success() called while a timer is installed
\* changes nothing.
LiveTimers == {t \in TimerIds : timers[t].state # "free"}
TimerRounds == {t \in TimerIds : timers[t].round # NoRound}
C6_SingleTimerSingleRound ==
    [][/\ Cardinality(LiveTimers') <= 1
       /\ Cardinality(TimerRounds') <= 1
       /\ (last'.op = "resolve_until_success" /\ _resolution_lc # NoTimer)
            => UNCHANGED <<enabled, _candidates, _resolution_lc, timers, calls>>]_vars

\* C6 witness: resolve_until_success() was called while the timer's round was
\* in flight.
C6_Witness ==
    /\ last.op = "resolve_until_success"
    /\ last.outcome = "noop"
    /\ _resolution_lc # NoTimer
    /\ timers[_resolution_lc].round # NoRound

\* C7: reset() leaves the configured keys unchanged and makes every address
\* unresolved: progress is (0, N), candidates is empty, are_resolved is false
\* when N > 0, and the next resolve() round looks up all N addresses again.
C7_ResetUnresolvesAll ==
    [][last'.op = "reset" =>
         /\ DOMAIN _candidates' = DOMAIN _candidates
         /\ progress' = <<0, Cardinality(Keys)>>
         /\ candidates' = {}
         /\ (Keys # {} => ~are_resolved')
         /\ NewRound'.addresses = Keys]_vars

\* C7 witness: reset() was called when addresses were resolved.
C7_Witness ==
    /\ last.op = "reset"
    /\ last.before = Cardinality(Keys)
    /\ last.before > 0
    /\ candidates = {}

\* C8: on a fresh community the first candidate to stumble is offered None and
\* every later one the candidate that stumbled immediately before it, also
\* when stumbles carry the same timestamp value.
C8_IntroducesPreviousStumbler ==
    \A i \in 1..Len(got.c) :
        got.c[i] = IF i = 1 THEN None ELSE order[i - 1]

\* C8 witness: all candidates have stumbled at one and the same time and the
\* last one was offered its predecessor.
C8_Witness ==
    /\ policy = "plain"
    /\ Len(got.c) = NumCandidates
    /\ \A c \in Candidates : timestamps["c"][c].last_stumble[1] = 1
    /\ got.c[NumCandidates] = order[NumCandidates - 1]

\* C9: an event delivered to one community never changes what the other
\* community introduces, and the candidates stumbling in reverse order in the
\* second, fresh community are offered None and then their predecessor there.
C9_CommunitiesAreIndependent ==
    [][/\ \A m \in Communities :
            events'[m] = events[m] =>
                \A r \in Candidates :
                    dispersy_yield_introduce_candidates(timestamps', policy', m, r)
                        = dispersy_yield_introduce_candidates(timestamps, policy, m, r)
       /\ \A i \in 1..Len(got'.c2) :
            got'.c2[i] = IF i = 1 THEN None ELSE Reversed(order)[i - 1]]_vars

\* C9 witness: the second community has seen all candidates in reverse order
\* after the first one saw them all.
C9_Witness ==
    /\ Len(got.c) = NumCandidates
    /\ Len(got.c2) = NumCandidates
    /\ got.c2[2] = order[NumCandidates]
    /\ got.c[2] = order[1]

\* C10: tracker policy: once a candidate has walked and its walk was answered,
\* every candidate that stumbles again is offered a candidate, never None: the
\* first one the most recently seen other candidate (the walker, or the last
\* stumbler when the first one is the walker itself), each later one its
\* predecessor.
C10_TrackerIntroducesLastSeen ==
    (policy = "tracker" /\ responded) =>
        \A i \in 1..Len(got.tracker) :
            /\ got.tracker[i] # None
            /\ got.tracker[i] =
                 IF i > 1 THEN order[i - 1]
                 ELSE IF walker = order[1] THEN order[NumCandidates] ELSE walker

\* C10 witness: the test's case, the first candidate walked and was answered,
\* and all have stumbled again.
C10_Witness ==
    /\ policy = "tracker"
    /\ responded
    /\ walker = order[1]
    /\ Len(got.tracker) = NumCandidates
    /\ got.tracker[1] = order[NumCandidates]

LeftAtHostOfReference ==
    {c \in DOMAIN registry :
        registry[c].wan_address[1] = merged.before[merged.reference].wan_address[1]}

\* the candidates that were registered at the WAN host of the reference
AtHostOfReference ==
    {c \in DOMAIN merged.before : SameWanHost(merged.before, c, merged.reference)}

Rounds == <<calls, [t \in TimerIds |-> timers[t].round]>>

\* C18: while enabled is false, resolve() (called directly or by a tick)
\* issues no lookup, leaves the mapping unchanged and returns false,
\* resolve_until_success() installs no timer, and the steps of a tick of a
\* timer installed earlier leave the mapping unchanged and issue no lookup.
C18_DisabledResolverDoesNothing ==
    [][~enabled =>
        /\ (resolve \/ ResolveByTimer) =>
             /\ last'.op = "resolve" /\ last'.outcome = "false"
             /\ reactor' = ReactorIdle
             /\ UNCHANGED <<_candidates, Rounds>>
        /\ (\E now \in BOOLEAN : resolve_until_success(now)) =>
             UNCHANGED <<_resolution_lc, timers, _candidates, reactor>>
        /\ ((\E t \in TimerIds : Tick(t)) \/ FirstCall \/ Stop) =>
             UNCHANGED <<_candidates, Rounds>>]_vars

\* C18 witness: resolve() has returned false although every address is
\* resolved, while a timer installed earlier is still running.
C18_Witness ==
    /\ ~enabled
    /\ last = Op("resolve", NoTimer, "false", {}, 0, FALSE)
    /\ Keys # {}
    /\ are_resolved
    /\ \E t \in TimerIds : timers[t].state = "running"

\* C20: the resolved addresses hold one candidate for each (IP, port), also
\* when two configured hostnames resolve to one IP.
C20_SingleCandidatePerResolvedAddress ==
    \A k, j \in candidates : _candidates[k] = _candidates[j] => k = j

\* the well-formed lines of the lines from line i on, in file order
RECURSIVE WellFormedAddresses(_, _)
WellFormedAddresses(lines, i) ==
    IF i > Len(lines) THEN << >>
    ELSE IF ~lines[i].comment /\ WellFormed(lines[i])
           THEN <<Address(lines[i])>> \o WellFormedAddresses(lines, i + 1)
           ELSE WellFormedAddresses(lines, i + 1)

\* C16: the result holds, in file order, every well-formed line that is no
\* comment, those after a malformed line included.
C16_MalformedLinesAreSkipped ==
    (loaded.done /\ file.readable) =>
        loaded.addresses = WellFormedAddresses(file.lines, 1)

\* C13: the pair of MPIs rebuilt from the signature made is the pair the
\* signer returned, and the signature made is found valid.
C13_SignatureRoundTrip ==
    signature # << >> =>
        LET length == Len(signature) \div 2
            r == SubSeq(signature, 1, length)
            s == SubSeq(signature, length + 1, Len(signature))
        IN /\ StripZeros(r) # << >>
           /\ StripZeros(s) # << >>
           /\ Rebuilt(r) = mpi[1]
           /\ Rebuilt(s) = mpi[2]
           /\ checked.given = signature => checked.result = "true"

\* C14: the signature has get_signature_length(ec) = 2 * ceil(bits / 8) bytes,
\* and each half is the magnitude of its scalar behind zero bytes.
C14_SignatureHasFixedWidth ==
    signature # << >> =>
        LET length == CeilBytes(ec)
        IN /\ Len(signature) = get_signature_length(ec)
           /\ Len(signature) = 2 * length
           /\ \A i \in 1..2 :
                SubSeq(signature, (i - 1) * length + 1, i * length)
                   = Zeros(length - Len(Magnitude(mpi[i]))) \o Magnitude(mpi[i])

\* C15: a signature of another length, or with a half of zero bytes only, is
\* found invalid without an exception.
C15_MalformedSignatureIsInvalid ==
    (checked # NotChecked /\ checked.given \in Malformed(signature))
        => checked.result = "false"

\* C17: every read and every write of self._candidates is made by a thread
\* that holds the lock.
C17_EveryAccessHoldsTheLock ==
    access # NoAccess => access.locked

\* C21: the keys of the mapping never change, so the total of progress is
\* constant, and a resolved address becomes unresolved only by reset(): no
\* call of resolve(), lookup, failed round or timer tick un-resolves it.
C21_KeysFixedAndOnlyResetUnresolves ==
    [][/\ Keys' = Keys
       /\ progress'[2] = progress[2]
       /\ (\E a \in Keys : _candidates[a] # NoCandidate /\ _candidates'[a] = NoCandidate)
             => (reset /\ last'.op = "reset")]_vars

\* C21 witness: a round that was still pending when the addresses got
\* resolved has failed, and the addresses are resolved as before.
C21_Witness ==
    /\ last.op = "resolve"
    /\ last.outcome = "error"
    /\ Cardinality(Keys) = MaxAddresses
    /\ are_resolved
====
